---- MODULE Spec2Model ----
(***************************************************************************)
(* A model of lettersmith/doc.py: the Doc record, its constructor and      *)
(* transforms, the doc_exceptions wrapper, the extension-gated mapping and *)
(* the pickle cache.                                                       *)
(*                                                                         *)
(* Python values are tagged records (field t names the Python type).  A    *)
(* Python str is modelled in one of three shapes, by what the program does *)
(* with it: a path is a sequence of one-character strings (pathlib looks   *)
(* inside it), a document body is a sequence of lines (the parsers look    *)
(* inside it, "" is <<>>), any other text is an opaque TLA+ string.        *)
(* Python objects with an identity (Docs) live in `heap`; a function of    *)
(* the program is an operator from the argument's value to a Result.       *)
(***************************************************************************)
EXTENDS Naturals, Sequences, FiniteSets, TLC

VARIABLES
    heap,     \* address -> Doc value (NoDoc: no live object at the address)
    cur,      \* address of the Doc the pipeline holds
    last,     \* the last call: operation, parameter, argument, outcome
    cache,    \* the cache root directory: entry name -> file contents
    origin,   \* history: id_path and section of the pipeline's Doc at creation
    dumped    \* history: the calls of Cache.dump, per id_path

vars == <<heap, cur, last, cache, origin, dumped>>

(***************************************************************************)
(* Bounds of the model.                                                    *)
(***************************************************************************)
MaxHeap == 3
MaxKwargs == 2

(***************************************************************************)
(* Python values.                                                          *)
(***************************************************************************)
None == [t |-> "None"]
Str(s) == [t |-> "str", s |-> s]
PathStr(chars) == [t |-> "str", chars |-> chars]
PurePathVal(parts) == [t |-> "PurePath", parts |-> parts]
Int(n) == [t |-> "int", n |-> n]
Date(day) == [t |-> "date", day |-> day]
Datetime(day, sec) == [t |-> "datetime", day |-> day, sec |-> sec]
Dict(items) == [t |-> "dict", items |-> items]
Lambda(name) == [t |-> "function", name |-> name]

EmptyDict == Dict(<<>>)
NoExc == [cls |-> "NoExc"]
NoDoc == [t |-> "NoDoc"]

Exc(cls, msg, cause) == [cls |-> cls, msg |-> msg, cause |-> cause]

\* The outcome of a call that computes a value: the value, or the exception raised
Ok(v) == [ok |-> TRUE, val |-> v, exc |-> NoExc]
Err(e) == [ok |-> FALSE, val |-> None, exc |-> e]

Max(S) == CHOOSE m \in S : \A n \in S : n <= m
Min(S) == CHOOSE m \in S : \A n \in S : m <= n

\* dict.get(key, default) on a mapping's items
DictGet(items, key, default) ==
    IF key \in DOMAIN items THEN items[key] ELSE default

\* {**items, **kwargs}
DictMerge(items, kwargs) ==
    [k \in DOMAIN items \cup DOMAIN kwargs |->
        IF k \in DOMAIN kwargs THEN kwargs[k] ELSE items[k]]

(***************************************************************************)
(* pathlib.PurePath on relative POSIX paths.                               *)
(***************************************************************************)
Sep == "/"
Dot == "."

\* PurePath(s).parts: split on the separator, dropping empty and "." parts
RECURSIVE Components(_)
Components(chars) ==
    IF chars = <<>> THEN <<>>
    ELSE LET seps == {i \in 1..Len(chars) : chars[i] = Sep}
             i == IF seps = {} THEN Len(chars) + 1 ELSE Min(seps)
             head == SubSeq(chars, 1, i - 1)
             rest == SubSeq(chars, i + 1, Len(chars))
         IN  (IF head = <<>> \/ head = <<Dot>> THEN <<>> ELSE <<head>>)
                 \o Components(rest)

\* str(PurePath): the parts joined by the separator, "." for no parts
RECURSIVE JoinParts(_)
JoinParts(parts) ==
    IF parts = <<>> THEN <<Dot>>
    ELSE IF Len(parts) = 1 THEN parts[1]
    ELSE parts[1] \o <<Sep>> \o JoinParts(Tail(parts))

\* PurePath.name
PathName(parts) == IF parts = <<>> THEN <<>> ELSE parts[Len(parts)]

\* PurePath.suffix: name[i:] for i = name.rfind('.') when 0 < i < len(name) - 1
PathSuffix(parts) ==
    LET name == PathName(parts)
        dots == {i \in 1..Len(name) : name[i] = Dot}
        i == IF dots = {} THEN 0 ELSE Max(dots)
    IN  IF 1 < i /\ i < Len(name) THEN SubSeq(name, i, Len(name)) ELSE <<>>

\* PurePath.with_suffix(suffix): the new parts, or ValueError
WithSuffix(parts, suffix) ==
    LET name == PathName(parts)
        old == PathSuffix(parts)
        stem == SubSeq(name, 1, Len(name) - Len(old))
    IN  IF \E i \in 1..Len(suffix) : suffix[i] = Sep
        THEN Err(Exc("ValueError", <<"Invalid suffix">>, NoExc))
        ELSE IF (suffix # <<>> /\ suffix[1] # Dot) \/ suffix = <<Dot>>
        THEN Err(Exc("ValueError", <<"Invalid suffix">>, NoExc))
        ELSE IF name = <<>>
        THEN Err(Exc("ValueError", <<"has an empty name">>, NoExc))
        ELSE Ok(SubSeq(parts, 1, Len(parts) - 1) \o <<stem \o suffix>>)

\* lettersmith.path.has_ext(path, *exts)
has_ext(chars, exts) == PathSuffix(Components(chars)) \in exts

(***************************************************************************)
(* Coercions.                                                              *)
(***************************************************************************)
Decimal(n) == <<"0", "1", "2", "3", "4", "5", "6", "7", "8", "9">>[n + 1]

\* str(v): a str is returned as it is, a PurePath is joined, an int is
\* written in decimal; the text of any other value is kept symbolic
PyStr(v) ==
    CASE v.t = "str" -> v
      [] v.t = "PurePath" -> PathStr(JoinParts(v.parts))
      [] v.t = "int" -> Str(Decimal(v.n))
      [] v.t = "None" -> Str("None")
      [] OTHER -> [t |-> "str", repr |-> v]

\* lettersmith.date.EPOCH
EPOCH == Datetime(0, 0)

\* lettersmith.date.to_datetime: a datetime is returned as it is, a date
\* becomes the datetime of its midnight, anything else is a TypeError
to_datetime(v) ==
    CASE v.t = "datetime" -> Ok(v)
      [] v.t = "date" -> Ok(Datetime(v.day, 0))
      [] OTHER -> Err(Exc("TypeError", <<"Can't convert to datetime">>, NoExc))

(***************************************************************************)
(* The Doc namedtuple and its constructor.                                 *)
(***************************************************************************)
Fields == <<"id_path", "output_path", "input_path", "created", "modified",
            "title", "content", "section", "meta", "templates">>
FieldSet == {Fields[i] : i \in 1..Len(Fields)}

Content(lines) == [t |-> "str", lines |-> lines]
Tuple(elems) == [t |-> "tuple", elems |-> elems]
_EMPTY_TUPLE == Tuple(<<>>)

\* A keyword argument, or the default of the parameter when it is not given
Arg(kw, name, default) == IF name \in DOMAIN kw THEN kw[name] ELSE default

\* doc(id_path, output_path, input_path=None, created=EPOCH, ...): kw holds
\* the arguments of the call
doc(kw) ==
    LET input_path == Arg(kw, "input_path", None)
        created == to_datetime(Arg(kw, "created", EPOCH))
        modified == to_datetime(Arg(kw, "modified", EPOCH))
        meta == Arg(kw, "meta", None)
        templates == Arg(kw, "templates", None)
    IN  IF ~created.ok THEN Err(created.exc)
        ELSE IF ~modified.ok THEN Err(modified.exc)
        ELSE Ok([id_path |-> PyStr(kw.id_path),
                 output_path |-> PyStr(kw.output_path),
                 input_path |-> IF input_path # None THEN PyStr(input_path) ELSE None,
                 created |-> created.val,
                 modified |-> modified.val,
                 title |-> PyStr(Arg(kw, "title", Str(""))),
                 content |-> PyStr(Arg(kw, "content", Content(<<>>))),
                 section |-> PyStr(Arg(kw, "section", Str(""))),
                 meta |-> IF meta # None THEN meta ELSE EmptyDict,
                 templates |-> IF templates # None THEN templates ELSE _EMPTY_TUPLE])

(***************************************************************************)
(* The outcome of calling a function of the program on a Doc object d:     *)
(* doc is the value returned, same says that the object returned is the    *)
(* argument itself, exc is the exception raised, arg is the value of the   *)
(* argument object when the call ends.                                     *)
(***************************************************************************)
Return(d, new) ==
    [ok |-> TRUE, doc |-> new, same |-> FALSE, exc |-> NoExc, arg |-> d]
ReturnSame(d) ==
    [ok |-> TRUE, doc |-> d, same |-> TRUE, exc |-> NoExc, arg |-> d]
Raise(d, e) ==
    [ok |-> FALSE, doc |-> NoDoc, same |-> FALSE, exc |-> e, arg |-> d]

\* namedtuple._replace(**kwargs)
_replace(d, kwargs) ==
    IF ~(DOMAIN kwargs \subseteq FieldSet)
    THEN Raise(d, Exc("ValueError", <<"Got unexpected field names">>, NoExc))
    ELSE Return(d, [f \in FieldSet |->
                        IF f \in DOMAIN kwargs THEN kwargs[f] ELSE d[f]])

\* A slip: the new Doc is built from the named fields and the identity only
replace_doc_rebuilt(d, kwargs) ==
    LET r == _replace(d, kwargs)
    IN  IF ~r.ok THEN r
        ELSE [r EXCEPT !.doc.templates =
                 IF "templates" \in DOMAIN kwargs THEN kwargs.templates
                 ELSE _EMPTY_TUPLE]

\* @replace.register(Doc)
replace_doc(d, kwargs) == _replace(d, kwargs)

\* lettersmith.util.replace on a mapping: a new mapping with the keys overwritten
replace_dict(m, kwargs) == Ok(Dict(DictMerge(m.items, kwargs)))

\* lettersmith.util.replace on a value of a type that registered nothing
replace_default(v, kwargs) ==
    Err(Exc("TypeError", <<"replace is not implemented for this type">>, NoExc))

\* replace_meta(doc, **kwargs)
replace_meta(d, kwargs) ==
    LET meta == IF d.meta.t = "dict" THEN replace_dict(d.meta, kwargs)
                ELSE replace_default(d.meta, kwargs)
    IN  IF ~meta.ok THEN Raise(d, meta.exc)
        ELSE replace_doc(d, [k \in {"meta"} |-> meta.val])

\* A slip: the magic keys are popped from the meta mapping as they are read
uplift_meta_popping(d) ==
    IF d.meta.t # "dict"
    THEN Raise(d, Exc("AttributeError", <<"object has no attribute 'get'">>, NoExc))
    ELSE LET created == to_datetime(DictGet(d.meta.items, "created", d.created))
             modified == to_datetime(DictGet(d.meta.items, "modified", d.modified))
             rest == DOMAIN d.meta.items \ {"title", "created", "modified"}
         IN  IF ~created.ok THEN Raise(d, created.exc)
             ELSE IF ~modified.ok THEN Raise(d, modified.exc)
             ELSE _replace(d, [k \in {"title", "created", "modified", "meta"} |->
                     CASE k = "title" -> DictGet(d.meta.items, "title", d.title)
                       [] k = "created" -> created.val
                       [] k = "modified" -> modified.val
                       [] k = "meta" -> Dict([x \in rest |-> d.meta.items[x]])])

\* uplift_meta(doc)
uplift_meta(d) ==
    IF d.meta.t # "dict"
    THEN Raise(d, Exc("AttributeError", <<"object has no attribute 'get'">>, NoExc))
    ELSE LET created == to_datetime(DictGet(d.meta.items, "created", d.created))
             modified == to_datetime(DictGet(d.meta.items, "modified", d.modified))
         IN  IF ~created.ok THEN Raise(d, created.exc)
             ELSE IF ~modified.ok THEN Raise(d, modified.exc)
             ELSE _replace(d, [k \in {"title", "created", "modified"} |->
                     CASE k = "title" -> DictGet(d.meta.items, "title", d.title)
                       [] k = "created" -> created.val
                       [] k = "modified" -> modified.val])

\* A slip: the extension is read from output_path
ext_of_output_path(exts, d) == has_ext(d.output_path.chars, exts)

\* ext(*exts): the predicate has_ext(doc)
ext(exts, d) == has_ext(d.id_path.chars, exts)

\* A slip: the suffix is changed on id_path
change_ext_of_id_path(d, suffix) ==
    LET updated_path == WithSuffix(Components(d.id_path.chars), suffix)
    IN  IF ~updated_path.ok THEN Raise(d, updated_path.exc)
        ELSE _replace(d, [k \in {"id_path"} |->
                             PathStr(JoinParts(updated_path.val))])

\* change_ext(doc, ext)
change_ext(d, suffix) ==
    LET updated_path == WithSuffix(Components(d.output_path.chars), suffix)
    IN  IF ~updated_path.ok THEN Raise(d, updated_path.exc)
        ELSE _replace(d, [k \in {"output_path"} |->
                             PathStr(JoinParts(updated_path.val))])

(***************************************************************************)
(* The parsers of the libraries, on bodies made of the lines below.  Lex   *)
(* gives what a line is to a parser.                                       *)
(***************************************************************************)
L_TitleHello == "title: Hello"
L_TitleSeven == "title: 7"
L_Created == "created: 2018-01-02"
L_Unterminated == "title: [unterminated"
L_Delim == "---"
L_Body == "Body"
L_Json == "{\"title\": \"Hello\"}"
L_Null == "null"

Lex(line) ==
    CASE line = L_TitleHello -> [kind |-> "pair", key |-> "title", val |-> Str("Hello")]
      [] line = L_TitleSeven -> [kind |-> "pair", key |-> "title", val |-> Int(7)]
      [] line = L_Created -> [kind |-> "pair", key |-> "created", val |-> Date(2)]
      [] line = L_Unterminated -> [kind |-> "bad", key |-> "", val |-> None]
      [] line = L_Delim -> [kind |-> "delim", key |-> "", val |-> None]
      [] line = L_Json -> [kind |-> "flow", key |-> "",
                           val |-> Dict([k \in {"title"} |-> Str("Hello")])]
      [] line = L_Null -> [kind |-> "flow", key |-> "", val |-> None]
      [] OTHER -> [kind |-> "scalar", key |-> "", val |-> Str(line)]

Kinds(lines) == {Lex(lines[i]).kind : i \in 1..Len(lines)}

\* A block mapping: each "key: value" line in turn, a later key overwriting
RECURSIVE BlockMapping(_)
BlockMapping(lines) ==
    IF lines = <<>> THEN <<>>
    ELSE LET n == Len(lines)
             tok == Lex(lines[n])
         IN  DictMerge(BlockMapping(SubSeq(lines, 1, n - 1)),
                       [k \in {tok.key} |-> tok.val])

\* yaml.load(text): None for an empty stream, the mapping of a block of
\* "key: value" lines, the value of a single flow or scalar line; a line
\* that does not scan, a second document, or a mix of these is an error
yaml_load(lines) ==
    LET body == IF lines # <<>> /\ Lex(lines[1]).kind = "delim"
                THEN Tail(lines) ELSE lines
    IN  IF "bad" \in Kinds(body)
        THEN Err(Exc("ParserError", <<"while parsing a flow sequence">>, NoExc))
        ELSE IF "delim" \in Kinds(body)
        THEN Err(Exc("ComposerError", <<"expected a single document">>, NoExc))
        ELSE IF body = <<>> THEN Ok(None)
        ELSE IF Kinds(body) = {"pair"} THEN Ok(Dict(BlockMapping(body)))
        ELSE IF Len(body) = 1 THEN Ok(Lex(body[1]).val)
        ELSE Err(Exc("ScannerError", <<"mapping values are not allowed here">>, NoExc))

\* json.loads(text): the value of a single JSON line, anything else is an error
json_loads(lines) ==
    IF Len(lines) = 1 /\ Lex(lines[1]).kind = "flow"
    THEN Ok(Lex(lines[1]).val)
    ELSE Err(Exc("JSONDecodeError", <<"Expecting value">>, NoExc))

\* frontmatter.parse(text): (metadata, content).  A body that opens with a
\* boundary line and holds a second one is split; the block between them is
\* YAML, added to the metadata when it is a mapping.  Any other body is
\* content, with no metadata
frontmatter_parse(lines) ==
    LET closing == {i \in 2..Len(lines) : Lex(lines[i]).kind = "delim"}
    IN  IF lines = <<>> \/ Lex(lines[1]).kind # "delim" \/ closing = {}
        THEN Ok(<<EmptyDict, Content(lines)>>)
        ELSE LET j == Min(closing)
                 fm == yaml_load(SubSeq(lines, 2, j - 1))
                 content == Content(SubSeq(lines, j + 1, Len(lines)))
             IN  IF ~fm.ok THEN Err(fm.exc)
                 ELSE IF fm.val.t = "dict" THEN Ok(<<fm.val, content>>)
                 ELSE Ok(<<EmptyDict, content>>)

(***************************************************************************)
(* The functions doc_exceptions decorates, before decoration.              *)
(***************************************************************************)
parse_frontmatter(d) ==
    LET parsed == frontmatter_parse(d.content.lines)
    IN  IF ~parsed.ok THEN Raise(d, parsed.exc)
        ELSE _replace(d, [k \in {"meta", "content"} |->
                             IF k = "meta" THEN parsed.val[1] ELSE parsed.val[2]])

\* A slip: the body is kept after it was parsed
parse_yaml_keeping_content(d) ==
    LET meta == yaml_load(d.content.lines)
    IN  IF ~meta.ok THEN Raise(d, meta.exc)
        ELSE _replace(d, [k \in {"meta"} |-> meta.val])

parse_yaml(d) ==
    LET meta == yaml_load(d.content.lines)
    IN  IF ~meta.ok THEN Raise(d, meta.exc)
        ELSE _replace(d, [k \in {"meta", "content"} |->
                             IF k = "meta" THEN meta.val ELSE Content(<<>>)])

parse_json(d) ==
    LET meta == json_loads(d.content.lines)
    IN  IF ~meta.ok THEN Raise(d, meta.exc)
        ELSE _replace(d, [k \in {"meta", "content"} |->
                             IF k = "meta" THEN meta.val ELSE Content(<<>>)])

\* The Doc-to-Doc functions the model wraps and maps with
Funcs == {"parse_frontmatter", "parse_yaml", "parse_json", "uplift_meta"}

\* func(doc)
Call(func, d) ==
    CASE func = "parse_frontmatter" -> parse_frontmatter(d)
      [] func = "parse_yaml" -> parse_yaml(d)
      [] func = "parse_json" -> parse_json(d)
      [] func = "uplift_meta" -> uplift_meta(d)

\* func.__qualname__ and func.__module__
QualName(func) == func
Module(func) == "lettersmith.doc"

\* A part of a formatted message: literal text, or a path written into it
Lit(s) == [lit |-> s]
PathPart(chars) == [path |-> chars]

\* The message doc_exceptions formats
DocExceptionMessage(d, func) ==
    <<Lit("Error encountered while mapping doc \""), PathPart(d.id_path.chars),
      Lit("\" with "), Lit(Module(func)), Lit("."), Lit(QualName(func)), Lit(".")>>

\* A slip: the DocException is raised without "from e"
doc_exceptions_unchained(func, d) ==
    LET r == Call(func, d)
    IN  IF r.ok THEN r
        ELSE [r EXCEPT !.exc = Exc("DocException", DocExceptionMessage(d, func), NoExc)]

\* doc_exceptions(func)(doc): map_doc
doc_exceptions(func, d) ==
    LET r == Call(func, d)
    IN  IF r.ok THEN r
        ELSE [r EXCEPT !.exc = Exc("DocException", DocExceptionMessage(d, func), r.exc)]

(***************************************************************************)
(* Predicate-gated mapping.                                                *)
(***************************************************************************)
\* lettersmith.util.maps_if(predicate)(func)(x), holds being predicate(x)
maps_if(holds, func, d) == IF holds THEN Call(func, d) ELSE ReturnSame(d)

\* maps_if_ext(*exts)(func)(doc)
maps_if_ext(exts, func, d) == maps_if(ext(exts, d), func, d)

(***************************************************************************)
(* Stubs.                                                                  *)
(***************************************************************************)
\* The summary of a body: its first line
Summary(content) ==
    IF content.lines = <<>> THEN Str("") ELSE Str(content.lines[1])

\* lettersmith.stub.stub(...): the constructor, with the defaults of doc()
stub(kw) ==
    LET input_path == Arg(kw, "input_path", None)
        created == to_datetime(Arg(kw, "created", EPOCH))
        modified == to_datetime(Arg(kw, "modified", EPOCH))
        meta == Arg(kw, "meta", None)
    IN  IF ~created.ok THEN Err(created.exc)
        ELSE IF ~modified.ok THEN Err(modified.exc)
        ELSE Ok([id_path |-> PyStr(kw.id_path),
                 output_path |-> PyStr(kw.output_path),
                 input_path |-> IF input_path # None THEN PyStr(input_path) ELSE None,
                 created |-> created.val,
                 modified |-> modified.val,
                 title |-> PyStr(Arg(kw, "title", Str(""))),
                 summary |-> PyStr(Arg(kw, "summary", Str(""))),
                 section |-> PyStr(Arg(kw, "section", Str(""))),
                 meta |-> IF meta # None THEN meta ELSE EmptyDict])

\* to_stub(doc): the Doc's identity and metadata, its content summarized
to_stub(d) ==
    stub([id_path |-> d.id_path, output_path |-> d.output_path,
          input_path |-> d.input_path, created |-> d.created,
          modified |-> d.modified, title |-> d.title,
          summary |-> Summary(d.content), section |-> d.section,
          meta |-> d.meta])

\* A slip: the summary of the stub is given as the content
from_stub_with_summary(s) ==
    doc([id_path |-> s.id_path, output_path |-> s.output_path,
         input_path |-> s.input_path, created |-> s.created,
         modified |-> s.modified, title |-> s.title, content |-> s.summary,
         section |-> s.section, meta |-> s.meta])

\* from_stub(stub)
from_stub(s) ==
    doc([id_path |-> s.id_path, output_path |-> s.output_path,
         input_path |-> s.input_path, created |-> s.created,
         modified |-> s.modified, title |-> s.title,
         section |-> s.section, meta |-> s.meta])

(***************************************************************************)
(* The cache: entries are files of the cache root, named by the digest of  *)
(* an id_path.                                                             *)
(***************************************************************************)
\* Whether pickle can serialize a value: a function defined in place cannot be
RECURSIVE Picklable(_)
Picklable(v) ==
    CASE v.t = "function" -> FALSE
      [] v.t = "dict" -> \A k \in DOMAIN v.items : Picklable(v.items[k])
      [] v.t = "tuple" -> \A i \in DOMAIN v.elems : Picklable(v.elems[i])
      [] OTHER -> TRUE

\* A slip: the Doc is written as to_json writes it, timestamps as dates
pickle_dumps_lossy(d) ==
    IF \E i \in 1..Len(Fields) : ~Picklable(d[Fields[i]])
    THEN Err(Exc("PicklingError", <<"Can't pickle">>, NoExc))
    ELSE Ok(<<[op |-> "GLOBAL", name |-> "lettersmith.doc Doc"],
              [op |-> "TUPLE", args |-> [i \in 1..Len(Fields) |->
                  IF Fields[i] \in {"created", "modified"}
                  THEN Date(d[Fields[i]].day) ELSE d[Fields[i]]]],
              [op |-> "NEWOBJ"],
              [op |-> "STOP"]>>)

\* pickle.dumps(doc): the class, its fields in order, the end of the stream
pickle_dumps(d) ==
    IF \E i \in 1..Len(Fields) : ~Picklable(d[Fields[i]])
    THEN Err(Exc("PicklingError", <<"Can't pickle">>, NoExc))
    ELSE Ok(<<[op |-> "GLOBAL", name |-> "lettersmith.doc Doc"],
              [op |-> "TUPLE", args |-> [i \in 1..Len(Fields) |-> d[Fields[i]]]],
              [op |-> "NEWOBJ"],
              [op |-> "STOP"]>>)

\* pickle.loads(data)
pickle_loads(data) ==
    IF data = <<>> THEN Err(Exc("EOFError", <<"Ran out of input">>, NoExc))
    ELSE IF data[Len(data)].op # "STOP"
    THEN Err(Exc("UnpicklingError", <<"pickle data was truncated">>, NoExc))
    ELSE Ok([f \in FieldSet |->
                data[2].args[CHOOSE i \in 1..Len(Fields) : Fields[i] = f]])

\* _hashstr(s): the MD5 hex digest of str(s), a name that differs for
\* different strings and holds no "." and no "/"
_hashstr(s) == [md5 |-> PyStr(s)]

\* _cache_path(id_path): the digest with the suffix .pkl
_cache_path(id_path) ==
    [stem |-> _hashstr(id_path), suffix |-> <<".", "p", "k", "l">>]

\* open(path, "wb") ... write(data): the directory with the file set to data
WriteFile(files, path, data) ==
    [q \in DOMAIN files \cup {path} |-> IF q = path THEN data ELSE files[q]]

\* Cache.dump(doc): the outcome, and the cache root's files afterwards.  The
\* file is opened for writing, which empties it, before pickle runs
Cache_dump(files, d) ==
    LET doc_cache_path == _cache_path(d.id_path)
        opened == WriteFile(files, doc_cache_path, <<>>)
        data == pickle_dumps(d)
    IN  IF ~data.ok THEN [res |-> Raise(d, data.exc), files |-> opened]
        ELSE [res |-> ReturnSame(d),
              files |-> WriteFile(opened, doc_cache_path, data.val)]

\* A slip: the entry is opened in a mode that creates it
Cache_load_creating(files, s) ==
    LET doc_cache_path == _cache_path(s.id_path)
        opened == IF doc_cache_path \in DOMAIN files THEN files
                  ELSE WriteFile(files, doc_cache_path, <<>>)
        loaded == pickle_loads(opened[doc_cache_path])
    IN  [res |-> IF loaded.ok THEN Return(s, loaded.val) ELSE Raise(s, loaded.exc),
         files |-> opened]

\* Cache.load(stub): the outcome; s is any record with an id_path
Cache_load(files, s) ==
    LET doc_cache_path == _cache_path(s.id_path)
    IN  IF doc_cache_path \notin DOMAIN files
        THEN [res |-> Raise(s, Exc("FileNotFoundError",
                                   <<"No such file or directory">>, NoExc)),
              files |-> files]
        ELSE LET loaded == pickle_loads(files[doc_cache_path])
             IN  [res |-> IF loaded.ok THEN Return(s, loaded.val)
                          ELSE Raise(s, loaded.exc),
                  files |-> files]

(***************************************************************************)
(* The inputs the model draws from.                                        *)
(***************************************************************************)
P_a_md == <<"a", ".", "m", "d">>
P_b_txt == <<"p", "/", "b", ".", "t", "x", "t">>
P_hidden == <<".", "m", "d">>
P_src == <<"s", "r", "c", "/", "/", "p", "/", "b", ".", "t", "x", "t">>

S_md == <<".", "m", "d">>
S_txt == <<".", "t", "x", "t">>
S_html == <<".", "h", "t", "m", "l">>
S_nodot == <<"m", "d">>

Suffixes == {S_md, S_html, S_nodot}
ExtSets == {{S_md}, {S_txt, S_html}}

C_empty == <<>>
C_yaml == <<L_TitleHello>>
C_bad == <<L_Unterminated>>
C_front == <<L_Delim, L_TitleSeven, L_Created, L_Delim, L_Body>>
C_json == <<L_Json>>
C_null == <<L_Null>>

Contents == {C_empty, C_yaml, C_bad, C_front, C_json, C_null}

\* Calls of doc(...): a bare one, and one that gives every argument
BareArgs(c) ==
    [id_path |-> PathStr(P_a_md), output_path |-> PathStr(P_a_md),
     content |-> Content(c)]
FullArgs(c) ==
    [id_path |-> PurePathVal(Components(P_b_txt)),
     output_path |-> PurePathVal(Components(P_b_txt)),
     input_path |-> PurePathVal(Components(P_src)),
     created |-> Date(1), modified |-> Datetime(3, 5),
     title |-> Int(4), content |-> Content(c), section |-> Str("p"),
     meta |-> Dict([k \in {"modified"} |-> Date(9)]),
     templates |-> Tuple(<<Str("post.html")>>)]
HiddenArgs(c) ==
    [id_path |-> PathStr(P_hidden), output_path |-> PathStr(P_a_md),
     title |-> Str("Hidden"), content |-> Content(c), meta |-> None]

DocArgs == {BareArgs(c) : c \in Contents}
           \cup {FullArgs(c) : c \in {C_front, C_yaml}}
           \cup {HiddenArgs(C_json)}

K_title == [k \in {"title"} |-> Str("Override")]
K_render == [k \in {"render"} |-> Lambda("render")]

\* The functions the model gates by extension
MapFuncs == {"parse_yaml", "uplift_meta"}

\* replace(doc, **kwargs): the value the model gives each name
NewValue(name) ==
    CASE name = "id_path" -> PathStr(P_hidden)
      [] name = "output_path" -> PathStr(P_src)
      [] name = "input_path" -> PathStr(P_a_md)
      [] name = "created" -> Datetime(7, 0)
      [] name = "modified" -> Datetime(8, 0)
      [] name = "title" -> Str("x")
      [] name = "content" -> Content(<<L_Body>>)
      [] name = "section" -> Str("s")
      [] name = "meta" -> Dict([k \in {"draft"} |-> Str("yes")])
      [] name = "templates" -> Tuple(<<Str("page.html")>>)
      [] OTHER -> Str("?")

\* The calls of replace the model makes: at most MaxKwargs names, a name
\* that is no field of a Doc among them
ReplaceKwargs ==
    {[name \in S |-> NewValue(name)] :
        S \in {T \in SUBSET (FieldSet \cup {"bogus"}) : Cardinality(T) <= MaxKwargs}}

\* The Docs the cache model builds, and the records it looks entries up with
CacheDocArgs ==
    {[id_path |-> PathStr(p), output_path |-> PathStr(p),
      modified |-> Datetime(day, 0), content |-> Content(C_yaml)] :
        p \in {P_a_md, P_b_txt}, day \in {1, 2}}

Lookups ==
    {stub([id_path |-> PathStr(p), output_path |-> PathStr(p)]).val :
        p \in {P_a_md, P_b_txt, P_hidden}}

(***************************************************************************)
(* The state machine.  Every call takes the Doc the pipeline holds; the    *)
(* objects alive after a call are its argument and what it returned.       *)
(***************************************************************************)
Addr == 1..MaxHeap

\* The address a new object gets
Alloc(a) == Min(Addr \ {a})

\* The call `op` with parameter `par` on the Doc at cur ended as r
Apply(op, par, r) ==
    LET a == cur
        ret == IF ~r.ok THEN 0 ELSE IF r.same THEN a ELSE Alloc(a)
    IN  /\ heap' = [x \in Addr |-> IF x = a THEN r.arg
                                   ELSE IF x = ret THEN r.doc ELSE NoDoc]
        /\ cur' = IF r.ok THEN ret ELSE a
        /\ last' = [op |-> op, par |-> par, arg |-> a, ret |-> ret,
                    ok |-> r.ok, exc |-> r.exc]

\* A Doc enters the pipeline: doc(**kw)
Enter(kw) ==
    LET made == doc(kw)
    IN  /\ made.ok
        /\ heap = [x \in Addr |-> IF x = 1 THEN made.val ELSE NoDoc]
        /\ cur = 1
        /\ last = [op |-> "doc", par |-> kw, arg |-> 0, ret |-> 1,
                   ok |-> TRUE, exc |-> NoExc]
        /\ cache = <<>>
        /\ origin = [id_path |-> made.val.id_path, section |-> made.val.section]
        /\ dumped = <<>>

Init == \E kw \in DocArgs : Enter(kw)

\* doc_exceptions(func)(doc); for the three parsers this is the function
\* the module exports under the parser's name
MapDoc(func) ==
    /\ Apply("doc_exceptions", func, doc_exceptions(func, heap[cur]))
    /\ UNCHANGED <<cache, origin, dumped>>

UpliftMeta ==
    /\ Apply("uplift_meta", None, uplift_meta(heap[cur]))
    /\ UNCHANGED <<cache, origin, dumped>>

ChangeExt(suffix) ==
    /\ Apply("change_ext", suffix, change_ext(heap[cur], suffix))
    /\ UNCHANGED <<cache, origin, dumped>>

ReplaceMeta(kwargs) ==
    /\ Apply("replace_meta", kwargs, replace_meta(heap[cur], kwargs))
    /\ UNCHANGED <<cache, origin, dumped>>

MapsIfExt(exts, func) ==
    /\ Apply("maps_if_ext", [exts |-> exts, func |-> func],
             maps_if_ext(exts, func, heap[cur]))
    /\ UNCHANGED <<cache, origin, dumped>>

\* from_stub(to_stub(doc))
StubRoundTrip ==
    LET d == heap[cur]
        s == to_stub(d)
        back == IF s.ok THEN from_stub(s.val) ELSE s
    IN  /\ Apply("from_stub", IF s.ok THEN s.val ELSE None,
                 IF back.ok THEN Return(d, back.val) ELSE Raise(d, back.exc))
        /\ UNCHANGED <<cache, origin, dumped>>

\* The history after a call of Cache.dump: per id_path, the Doc of the last
\* call that returned, and whether the last call returned
Dumped(d, r) ==
    [p \in DOMAIN dumped \cup {d.id_path} |->
        IF p # d.id_path THEN dumped[p]
        ELSE [doc |-> IF r.ok THEN d
                      ELSE IF p \in DOMAIN dumped THEN dumped[p].doc ELSE NoDoc,
              ok |-> r.ok]]

\* cache.load(cache.dump(doc))
DumpLoad ==
    LET d == heap[cur]
        dump == Cache_dump(cache, d)
        load == Cache_load(dump.files, dump.res.doc)
    IN  /\ Apply("dump_load", None,
                 IF ~dump.res.ok THEN dump.res
                 ELSE [load.res EXCEPT !.arg = dump.res.arg])
        /\ cache' = IF dump.res.ok THEN load.files ELSE dump.files
        /\ dumped' = Dumped(d, dump.res)
        /\ UNCHANGED origin

\* replace(doc, **kwargs), dispatched on Doc
Replace(kwargs) ==
    /\ Apply("replace", kwargs, replace_doc(heap[cur], kwargs))
    /\ UNCHANGED <<cache, origin, dumped>>

\* A build starts on another Doc; the cache root stays
NewDoc(kw) ==
    LET made == doc(kw)
    IN  /\ made.ok
        /\ heap' = [x \in Addr |-> IF x = 1 THEN made.val ELSE NoDoc]
        /\ cur' = 1
        /\ last' = [op |-> "doc", par |-> kw, arg |-> 0, ret |-> 1,
                    ok |-> TRUE, exc |-> NoExc]
        /\ origin' = [id_path |-> made.val.id_path, section |-> made.val.section]
        /\ UNCHANGED <<cache, dumped>>

\* cache.dump(doc) on the Doc the pipeline holds
Dump ==
    LET d == heap[cur]
        dump == Cache_dump(cache, d)
    IN  /\ Apply("dump", None, dump.res)
        /\ cache' = dump.files
        /\ dumped' = Dumped(d, dump.res)
        /\ UNCHANGED origin

\* cache.load(s): s is the Doc the pipeline holds (at address a = cur) or
\* another record with an id_path (a = 0); the pipeline goes on with the
\* Doc loaded
Load(s, a) ==
    LET load == Cache_load(cache, s)
        r == load.res
        ret == IF r.ok THEN Alloc(cur) ELSE 0
    IN  /\ heap' = [x \in Addr |-> IF x = cur THEN (IF a = cur THEN r.arg ELSE heap[cur])
                                   ELSE IF x = ret THEN r.doc ELSE NoDoc]
        /\ cur' = IF r.ok THEN ret ELSE cur
        /\ last' = [op |-> "load", par |-> s, arg |-> a, ret |-> ret,
                    ok |-> r.ok, exc |-> r.exc]
        /\ cache' = load.files
        /\ UNCHANGED <<origin, dumped>>

(***************************************************************************)
(* The pipeline of transforms, without the cache.                          *)
(***************************************************************************)
Next ==
    \/ \E func \in Funcs : MapDoc(func)
    \/ UpliftMeta
    \/ \E suffix \in Suffixes : ChangeExt(suffix)
    \/ ReplaceMeta(K_title)
    \/ \E exts \in ExtSets, func \in MapFuncs : MapsIfExt(exts, func)
    \/ StubRoundTrip

Spec == Init /\ [][Next]_vars

(***************************************************************************)
(* The core transforms with the cache round trip among them.               *)
(***************************************************************************)
CoreInit == \E kw \in {FullArgs(C_front), BareArgs(C_yaml)} : Enter(kw)

CoreNext ==
    \/ \E func \in {"parse_frontmatter", "parse_yaml", "parse_json"} : MapDoc(func)
    \/ UpliftMeta
    \/ ChangeExt(S_html)
    \/ ReplaceMeta(K_render)
    \/ DumpLoad

CoreSpec == CoreInit /\ [][CoreNext]_vars

(***************************************************************************)
(* replace on Docs.                                                        *)
(***************************************************************************)
\* Each build makes a Doc and replaces fields of it
ReplaceNext ==
    \/ \E kw \in DocArgs : NewDoc(kw)
    \/ last.op = "doc" /\ \E kwargs \in ReplaceKwargs : Replace(kwargs)

ReplaceSpec == Init /\ [][ReplaceNext]_vars

(***************************************************************************)
(* The cache over several builds.                                          *)
(***************************************************************************)
CacheInit == \E kw \in CacheDocArgs : Enter(kw)

CacheNext ==
    \/ \E kw \in CacheDocArgs : NewDoc(kw)
    \/ ReplaceMeta(K_render)
    \/ Dump
    \/ Load(heap[cur], cur)
    \/ \E s \in Lookups \cup {to_stub(heap[cur]).val} : Load(s, 0)

CacheSpec == CacheInit /\ [][CacheNext]_vars

(***************************************************************************)
(* Properties.                                                             *)
(***************************************************************************)
ArgDoc == heap[last.arg]
RetDoc == heap[last.ret]

\* The classes an exception of the class is an instance of
Bases(cls) ==
    CASE cls = "FileNotFoundError" -> {"FileNotFoundError", "OSError", "Exception"}
      [] cls = "EOFError" -> {"EOFError", "Exception"}
      [] cls = "UnpicklingError" -> {"UnpicklingError", "PickleError", "Exception"}
      [] OTHER -> {cls, "Exception"}

\* The entry a record's id_path names is in the cache root
HasEntry(s) == _cache_path(s.id_path) \in DOMAIN cache

\* C1: a load returns a Doc equal in every field to the Doc the last dump
\* with that id_path wrote, whenever that dump returned (its Doc could be
\* serialized); the record given to load may be the Doc or any other record
\* with the same id_path, such as a Stub.
C1_CacheRoundTrip ==
    (/\ last.op = "load"
     /\ last.par.id_path \in DOMAIN dumped
     /\ dumped[last.par.id_path].ok)
    => (/\ last.ok
        /\ \A f \in FieldSet : RetDoc[f] = dumped[last.par.id_path].doc[f])

C1_Witness ==
    /\ last.op = "load"
    /\ last.ok
    /\ "summary" \in DOMAIN last.par
    /\ RetDoc = dumped[last.par.id_path].doc
    /\ RetDoc.content = Content(C_yaml)
    /\ RetDoc.modified = Datetime(1, 0)

\* C2 (state): a load for an id_path no dump was ever called with raises
\* FileNotFoundError; a load for an entry that is there but cannot be
\* deserialized raises an exception that is no FileNotFoundError, and
\* FileNotFoundError is none of its classes.
C2_MissOrCorrupt ==
    last.op = "load" =>
        /\ last.par.id_path \notin DOMAIN dumped
            => ~last.ok /\ last.exc.cls = "FileNotFoundError"
        /\ (HasEntry(last.par) /\ ~last.ok)
            => /\ Bases(last.exc.cls) \cap {"FileNotFoundError", "OSError"} = {}
               /\ last.exc.cls \notin Bases("FileNotFoundError")

\* C2 (step): a load that fails leaves the cache root as it was.
C2_FailedLoadKeepsCache ==
    (last'.op = "load" /\ ~last'.ok) => cache' = cache

\* C2: Cache.load on an id_path never dumped fails with a not-found error
\* and leaves the cache unchanged, and that error can be told from the
\* error of an entry that is present and cannot be deserialized.
C2_CacheMiss == []C2_MissOrCorrupt /\ [][C2_FailedLoadKeepsCache]_vars

C2_Witness ==
    /\ last.op = "load"
    /\ last.par.id_path \notin DOMAIN dumped
    /\ last.exc.cls = "FileNotFoundError"
    /\ \E p \in DOMAIN cache : ~pickle_loads(cache[p]).ok

\* C10 as claimed: a load for an id_path returns the Doc of the last dump
\* with that id_path that returned, whatever was done to the cache since.
C10_LoadReturnsLastDump ==
    (/\ last.op = "load"
     /\ last.par.id_path \in DOMAIN dumped
     /\ dumped[last.par.id_path].doc # NoDoc)
    => (last.ok /\ RetDoc = dumped[last.par.id_path].doc)

\* C3 (state): the Doc the pipeline holds has the id_path and the section
\* it was created with.
C3_IdentityKept ==
    /\ heap[cur].id_path = origin.id_path
    /\ heap[cur].section = origin.section

\* C3 (step): the Doc given to a transform has the same value after it.
C3_InputKept == heap'[last'.arg] = heap[last'.arg]

\* C3: under any sequence of parse_frontmatter, parse_yaml, parse_json,
\* uplift_meta, change_ext, replace_meta and dump-then-load, the Doc keeps
\* the id_path and section of its creation, and no transform changes the
\* Doc it is given.
C3_CoreTransforms == []C3_IdentityKept /\ [][C3_InputKept]_vars

C3_Witness ==
    /\ last.op = "dump_load"
    /\ last.ok
    /\ last.ret # last.arg
    /\ RetDoc.title = Int(7)
    /\ RetDoc.content = Content(<<>>)
    /\ RetDoc.output_path # RetDoc.id_path
    /\ RetDoc.id_path = PathStr(P_b_txt)

\* C4 (state): replace returns a new Doc whose named fields have the given
\* values and whose other fields are those of the Doc given.
C4_FieldsReplaced ==
    (last.op = "replace" /\ DOMAIN last.par \subseteq FieldSet) =>
        /\ last.ok
        /\ last.ret # last.arg
        /\ \A f \in FieldSet :
              RetDoc[f] = IF f \in DOMAIN last.par THEN last.par[f] ELSE ArgDoc[f]

\* C4 (step): the Doc given to replace has the same value after it.
C4_InputKept == last'.op = "replace" => heap'[last'.arg] = heap[last'.arg]

\* C4: replace(d, **fields) returns a new Doc with each named field set to
\* the given value and every other field equal to d's, and leaves d as it was.
C4_Replace == []C4_FieldsReplaced /\ [][C4_InputKept]_vars

C4_Witness ==
    /\ last.op = "replace"
    /\ last.ok
    /\ DOMAIN last.par = {"title", "id_path"}
    /\ RetDoc.title = Str("x")
    /\ ArgDoc.title = Str("4")
    /\ RetDoc.templates = Tuple(<<Str("post.html")>>)

\* C5: maps_if_ext(*exts)(func) returns the very Doc it is given when the
\* extension of the Doc's id_path is not in exts, and what func(doc) returns
\* (or raises) when it is; output_path has no part in it.
C5_MapsIfExt ==
    last.op = "maps_if_ext" =>
        IF PathSuffix(Components(ArgDoc.id_path.chars)) \in last.par.exts
        THEN LET r == Call(last.par.func, ArgDoc)
             IN  /\ last.ok = r.ok
                 /\ last.exc = r.exc
                 /\ r.ok => RetDoc = r.doc
        ELSE last.ok /\ last.ret = last.arg

C5_Witness ==
    /\ last.op = "maps_if_ext"
    /\ last.ok
    /\ last.ret = last.arg
    /\ PathSuffix(Components(ArgDoc.output_path.chars)) \in last.par.exts
    /\ PathSuffix(Components(ArgDoc.id_path.chars)) \notin last.par.exts
    /\ Call(last.par.func, ArgDoc).ok
    /\ Call(last.par.func, ArgDoc).doc # ArgDoc

\* Whether a message holds a part, and the module-qualified name of func
Holds(msg, part) == \E i \in 1..Len(msg) : msg[i] = part
HoldsQualifiedName(msg, func) ==
    \E i \in 1..(Len(msg) - 2) :
        /\ msg[i] = Lit("lettersmith.doc")
        /\ msg[i + 1] = Lit(".")
        /\ msg[i + 2] = Lit(func)

StubKept == {"id_path", "output_path", "created", "modified", "title",
             "section", "meta"}

\* C7 as claimed: from_stub(to_stub(d)) has d's id_path, output_path,
\* created, modified, title, section and meta, and an empty content.
C7_StubRoundTripKeepsAll ==
    (last.op = "from_stub" /\ last.ok) =>
        /\ \A f \in StubKept : RetDoc[f] = ArgDoc[f]
        /\ RetDoc.content = Content(<<>>)

\* C7 as amended: from_stub(to_stub(d)) has d's id_path, output_path,
\* created, modified and section; its title is str(d.title), which is
\* d's title when that is a string; its meta is d's meta, or the empty
\* mapping when d's meta is None; its content is empty whatever d's is.
C7_StubRoundTrip ==
    last.op = "from_stub" =>
        /\ last.ok
        /\ \A f \in {"id_path", "output_path", "created", "modified", "section"} :
              RetDoc[f] = ArgDoc[f]
        /\ ArgDoc.title.t = "str" => RetDoc.title = ArgDoc.title
        /\ ArgDoc.title.t = "int" => RetDoc.title = Str(Decimal(ArgDoc.title.n))
        /\ RetDoc.title.t = "str"
        /\ ArgDoc.meta # None => RetDoc.meta = ArgDoc.meta
        /\ ArgDoc.meta = None => RetDoc.meta = EmptyDict
        /\ RetDoc.content = Content(<<>>)

C7_Witness ==
    /\ last.op = "from_stub"
    /\ last.ok
    /\ ArgDoc.content = Content(<<L_Body>>)
    /\ RetDoc.content = Content(<<>>)
    /\ last.par.summary = Str(L_Body)
    /\ ArgDoc.meta.t = "dict"
    /\ "title" \in DOMAIN ArgDoc.meta.items
    /\ RetDoc.meta = ArgDoc.meta
    /\ RetDoc.title = ArgDoc.title

\* C8: uplift_meta sets title, created and modified from the keys of those
\* names in meta when they are there, created and modified as datetimes (a
\* date becomes its midnight), keeps the field when the key is not there,
\* and leaves meta and every other field as they were.
C8_UpliftMeta ==
    (last.op = "uplift_meta" /\ last.ok) =>
        LET m == ArgDoc.meta.items
        IN  /\ RetDoc.title = IF "title" \in DOMAIN m THEN m.title ELSE ArgDoc.title
            /\ \A f \in {"created", "modified"} :
                  /\ RetDoc[f].t = "datetime"
                  /\ f \notin DOMAIN m => RetDoc[f] = ArgDoc[f]
                  /\ (f \in DOMAIN m /\ m[f].t = "datetime") => RetDoc[f] = m[f]
                  /\ (f \in DOMAIN m /\ m[f].t = "date")
                        => RetDoc[f] = Datetime(m[f].day, 0)
            /\ \A f \in FieldSet \ {"title", "created", "modified"} :
                  RetDoc[f] = ArgDoc[f]

C8_Witness ==
    /\ last.op = "uplift_meta"
    /\ last.ok
    /\ DOMAIN ArgDoc.meta.items = {"title", "created"}
    /\ ArgDoc.meta.items.created = Date(2)
    /\ RetDoc.created = Datetime(2, 0)
    /\ RetDoc.title = Int(7)
    /\ ArgDoc.title = Str("4")
    /\ RetDoc.modified = Datetime(3, 5)
    /\ RetDoc.meta = ArgDoc.meta

\* What the body of a Doc parses to, for parse_yaml and parse_json
Parsed(func, d) ==
    IF func = "parse_yaml" THEN yaml_load(d.content.lines)
    ELSE json_loads(d.content.lines)

\* C9: parse_yaml and parse_json on a Doc whose body is well formed return
\* a Doc whose meta is what the whole body parses to and whose content is
\* empty, every other field as it was; "title: Hello" gives the meta
\* {"title": "Hello"}.
C9_ParseWhole ==
    (last.op = "doc_exceptions" /\ last.par \in {"parse_yaml", "parse_json"}
        /\ Parsed(last.par, ArgDoc).ok) =>
        /\ last.ok
        /\ RetDoc.meta = Parsed(last.par, ArgDoc).val
        /\ RetDoc.content = Content(<<>>)
        /\ \A f \in FieldSet \ {"meta", "content"} : RetDoc[f] = ArgDoc[f]
        /\ (last.par = "parse_yaml" /\ ArgDoc.content = Content(<<"title: Hello">>))
              => RetDoc.meta = Dict([k \in {"title"} |-> Str("Hello")])

C9_Witness ==
    /\ last.op = "doc_exceptions"
    /\ last.par = "parse_yaml"
    /\ last.ok
    /\ ArgDoc.content = Content(<<"title: Hello">>)
    /\ RetDoc.meta = Dict([k \in {"title"} |-> Str("Hello")])
    /\ RetDoc.content = Content(<<>>)

====
